---------------------------- MODULE Spec2Model ----------------------------
(***************************************************************************)
(* A model of the c-aff4 resolver (src/src/data_store.h: AFF4ScopedPtr,    *)
(* DataStore::AFF4FactoryOpen, MemoryDataStore) and of the aff4imager      *)
(* command line tool (src/src/aff4imager.cc: ImageStream, parseOptions,    *)
(* main).                                                                  *)
(*                                                                         *)
(* Two specifications share the resolver's state and its operators:        *)
(*   Spec        a client driving one resolver through Open, Set, Clear,   *)
(*               Flush and the operations of its checkout handles;         *)
(*   SpecImager  one run of the imager: main -> parseOptions ->            *)
(*               ImageStream, or ImageStream called with a buffer size.    *)
(***************************************************************************)
EXTENDS Integers, Sequences, FiniteSets, TLC

VARIABLES
  store,        \* MemoryDataStore::store : subject -> attribute -> value
  ObjectCache,  \* DataStore::ObjectCache : urn -> owned object (its id)
  objects,      \* every AFF4Object constructed so far, by id (the heap)
  handles,      \* the client's AFF4ScopedPtr variables (Spec)
  aborted,      \* the process was ended by a failed CHECK or a crash
  lastOp,       \* the operation just performed and what it returned (Spec)
  pc,           \* the imager's position (SpecImager)
  argv,         \* the imager's command line (SpecImager)
  locals,       \* ImageStream's arguments and its four handles (SpecImager)
  content,      \* the bytes the input stream holds (SpecImager)
  readptr,      \* the input stream's read position (SpecImager)
  trace,        \* the resolver and stream calls made so far (SpecImager)
  res           \* parseOptions' return value and the exit status (SpecImager)

vars == <<store, ObjectCache, objects, handles, aborted, lastOp,
          pc, argv, locals, content, readptr, trace, res>>

imagerVars == <<pc, argv, locals, content, readptr, trace, res>>

---------------------------------------------------------------------------
(* Bounds of the model. *)

\* Objects that may be constructed in one run of Spec.
MaxObjects == 2
\* Handle variables the client of Spec holds.
MaxHandles == 2
\* Longest input content of SpecImager.
MaxLen == 4
\* Largest buffer size ImageStream is called with directly.
MaxBuf == 4

---------------------------------------------------------------------------
(* Values. *)

\* ptr_(0): the null pointer; object ids start at 1.
NULL == 0

\* The default buffer_size of ImageStream: 1024*1024.
DEFAULT_BUFFER_SIZE == 1048576

None == "none"

AFF4_TYPE == "type"
AFF4_STORED == "stored"
AFF4_STREAM_WRITE_MODE == "write_mode"

\* A URN, parsed: urn.Parse() gives its components.
URN(scheme, path) == [scheme |-> scheme, path |-> path]

Parse(urn) == urn

\* URN::Append: a member's URN below a volume's.
UrnAppend(urn, p) == [urn EXCEPT !.path = @ \o "/" \o p]

\* The classes the registry constructs, and the capabilities each supports
\* (what dynamic_cast<T *> accepts).
ClassCaps(class) ==
  CASE class = "FileBackedObject" -> {"AFF4Object", "AFF4Stream"}
    [] class = "ZipFile" -> {"AFF4Object", "AFF4Volume", "ZipFile"}
    [] class = "AFF4Image" -> {"AFF4Object", "AFF4Stream", "AFF4Image"}
    [] OTHER -> {}

\* GetAFF4ClassFactory()->CreateInstance(key, resolver): the class registered
\* under a type urn or a scheme, None when there is none.
CreateInstance(key) ==
  CASE key = "file" -> "FileBackedObject"
    [] key = "aff4:zip_volume" -> "ZipFile"
    [] key = "aff4:image" -> "AFF4Image"
    [] OTHER -> None

\* An unordered_map as a function on the keys it holds.
EmptyMap == [k \in {} |-> NULL]

MapPut(m, k, v) == [x \in (DOMAIN m) \cup {k} |-> IF x = k THEN v ELSE m[x]]

---------------------------------------------------------------------------
(* MemoryDataStore: the triple store. *)

\* MemoryDataStore::Set: AFF4_Attributes keeps one value per attribute.
StoreSet(st, urn, attribute, value) ==
  MapPut(st, urn,
         MapPut(IF urn \in DOMAIN st THEN st[urn] ELSE EmptyMap,
                attribute, value))

\* MemoryDataStore::Get: the value, None for NOT_FOUND.
StoreGet(st, urn, attribute) ==
  IF urn \in DOMAIN st /\ attribute \in DOMAIN st[urn]
  THEN st[urn][attribute]
  ELSE None

\* The values a subject carries for an attribute: AFF4_Attributes maps an
\* attribute to one unique_ptr<RDFValue>, so there is at most one.
Carried(st, urn, attribute) ==
  IF urn \in DOMAIN st /\ attribute \in DOMAIN st[urn]
  THEN {st[urn][attribute]}
  ELSE {}

\* A DeleteSubject that empties the whole store.
DeleteSubject_Everything(st, urn) == EmptyMap

\* MemoryDataStore::DeleteSubject: store.erase(urn.value).
DeleteSubject(st, urn) == [x \in (DOMAIN st) \ {urn} |-> st[x]]

---------------------------------------------------------------------------
(* DataStore::AFF4FactoryOpen. *)

\* A find that never hits: every Open constructs.
CacheFind_NeverHits(cache, urn) == NULL

\* ObjectCache.find(urn.value): the cached object, NULL on a miss.
CacheFind(cache, urn) == IF urn \in DOMAIN cache THEN cache[urn] ELSE NULL

\* An unchecked cast: the pointer whatever the object's class.
DynamicCast_Unchecked(objs, o, T) == o

\* dynamic_cast<T *>(p): p when its class supports T, NULL otherwise.
DynamicCast(objs, o, T) ==
  IF o # NULL /\ T \in ClassCaps(objs[o].class) THEN o ELSE NULL

\* A key that is the scheme whether or not a type is declared.
RegistryKey_SchemeOnly(st, urn) == Parse(urn).scheme

\* A key that takes an identifier without a declared type for a file.
RegistryKey_DefaultsToFile(st, urn) ==
  IF StoreGet(st, urn, AFF4_TYPE) # None
  THEN StoreGet(st, urn, AFF4_TYPE)
  ELSE "file"

\* The key the registry is consulted with on a miss: the declared type when
\* Get(urn, AFF4_TYPE) is STATUS_OK, the scheme otherwise.
RegistryKey(st, urn) ==
  IF StoreGet(st, urn, AFF4_TYPE) # None
  THEN StoreGet(st, urn, AFF4_TYPE)
  ELSE Parse(urn).scheme

\* A live object of a class, with obj->urn = urn.
NewObject(class, urn) == [class |-> class, urn |-> urn, alive |-> TRUE]

\* What is left of an object once it is destroyed: its memory is no object,
\* only the class a dangling pointer to it was cast to.
Destroyed(o) == [class |-> o.class, urn |-> URN("", ""), alive |-> FALSE]

\* A check that takes every self-load for a success.
LoadFailed_Ignored(loadOk) == FALSE

\* obj->LoadFromURN() != STATUS_OK.
LoadFailed(loadOk) == ~loadOk

\* The status LoadFromURN returned, as the caller of Open cannot see it.
Loaded(loadOk) == IF loadOk THEN "ok" ELSE "failed"

\* AFF4FactoryOpen<T>(urn), with loadOk the outcome of obj->LoadFromURN().
\* The result: the resolver's cache and heap after the call, the handle's
\* pointer (result), the object wrapped (obj), and the hooks invoked.
AFF4FactoryOpen(cache, objs, st, urn, T, loadOk) ==
  LET hit == CacheFind(cache, urn)
      key == RegistryKey(st, urn)
      class == CreateInstance(key)
      id == Len(objs) + 1
  IN  IF hit # NULL
      THEN \* it->second->Prepare(); return the cast of the cached object.
           [cache |-> cache, objects |-> objs,
            result |-> DynamicCast(objs, hit, T), obj |-> hit,
            path |-> "hit", key |-> None, prepare |-> 1, load |-> 0,
            loaded |-> None]
      ELSE IF class = None
      THEN \* Failed to find the object.
           [cache |-> cache, objects |-> objs,
            result |-> NULL, obj |-> NULL,
            path |-> "unknown", key |-> key, prepare |-> 0, load |-> 0,
            loaded |-> None]
      ELSE IF LoadFailed(loadOk)
      THEN \* LoadFromURN failed: obj goes out of scope, which destroys the
           \* object before any pointer to it has left the call.
           [cache |-> cache, objects |-> objs,
            result |-> NULL, obj |-> NULL,
            path |-> "loadfail", key |-> key, prepare |-> 0, load |-> 1,
            loaded |-> Loaded(loadOk)]
      ELSE \* Cache the object for next time.
           LET objs2 == Append(objs, NewObject(class, urn))
           IN  [cache |-> MapPut(cache, urn, id), objects |-> objs2,
                result |-> DynamicCast(objs2, id, T), obj |-> id,
                path |-> "miss", key |-> key, prepare |-> 0, load |-> 1,
                loaded |-> Loaded(loadOk)]

\* Whether an Open would add an object to the cache (Spec bounds these).
Constructs(cache, st, urn, loadOk) ==
  /\ CacheFind(cache, urn) = NULL
  /\ CreateInstance(RegistryKey(st, urn)) # None
  /\ ~LoadFailed(loadOk)

---------------------------------------------------------------------------
(* MemoryDataStore::Clear and Flush. *)

CachedObjects(cache) == {cache[u] : u \in DOMAIN cache}

\* Clear() empties the Object Cache: the unique_ptrs it held destroy their
\* objects.
ClearObjects(cache, objs) ==
  [i \in DOMAIN objs |->
     IF i \in CachedObjects(cache) THEN Destroyed(objs[i]) ELSE objs[i]]

\* Flush(): the objects whose flush hook is invoked, every cached one.
FlushHooks(cache) == CachedObjects(cache)

---------------------------------------------------------------------------
(* AFF4ScopedPtr. *)

Handles == 1..MaxHandles

\* A handle variable not yet constructed, or gone out of scope.
NoHandle == [live |-> FALSE, T |-> None, ptr |-> NULL]

\* AFF4ScopedPtr<T>(p, resolver), and AFF4ScopedPtr<T>() when p is NULL.
ScopedPtr(T, p) == [live |-> TRUE, T |-> T, ptr |-> p]

\* A release that leaves the pointer in the handle.
Released_KeepsPointer(h) == h

\* release(): ptr_ = NULL.
Released(h) == [h EXCEPT !.ptr = NULL]

\* operator->: CHECK(ptr_ != NULL) aborts on an empty handle; a pointer to a
\* destroyed object is undefined behaviour (a crash, or whatever is there).
ArrowOutcomes(objs, p) ==
  IF p = NULL THEN {"abort"}
  ELSE IF ~objs[p].alive THEN {"abort", "garbage"}
  ELSE {"ok"}

\* operator*: return *ptr_, unchecked. On an empty handle that is undefined
\* behaviour: a crash, or a reference to no object handed to the caller.
StarOutcomes(objs, p) ==
  IF p = NULL THEN {"abort", "nullref"}
  ELSE IF ~objs[p].alive THEN {"abort", "garbage"}
  ELSE {"ok"}

\* What a handle's pointer points to.
PointerState(objs, p) ==
  IF p = NULL THEN "empty" ELSE IF objs[p].alive THEN "live" ELSE "dangling"

DerefOutcomes(objs, p, operator) ==
  IF operator = "arrow" THEN ArrowOutcomes(objs, p) ELSE StarOutcomes(objs, p)

---------------------------------------------------------------------------
(* Spec: a client of one resolver. *)

NoURN == URN("", "")

ClientURNs == {URN("file", "a"), URN("aff4", "v")}

ClientTypes == {"aff4:zip_volume", "aff4:unknown"}

ClientCaps == {"AFF4Stream", "AFF4Volume"}

\* The record of an operation: what was called and what it returned.
Op(op) ==
  [op |-> op, urn |-> NoURN, T |-> None, result |-> NULL, obj |-> NULL,
   path |-> None, key |-> None, prepare |-> 0, load |-> 0, loaded |-> None,
   operator |-> None, outcome |-> None, flushed |-> {}]

ImagerIdle ==
  /\ pc = "idle"
  /\ argv = None
  /\ locals = None
  /\ content = <<>>
  /\ readptr = 0
  /\ trace = <<>>
  /\ res = None

Init ==
  /\ store = EmptyMap
  /\ ObjectCache = EmptyMap
  /\ objects = <<>>
  /\ handles = [h \in Handles |-> NoHandle]
  /\ aborted = FALSE
  /\ lastOp = Op("Init")
  /\ ImagerIdle

\* The handle variable a declaration introduces: the first one not in use
\* (which one it is makes no difference to the program).
IsFree(h) ==
  /\ ~handles[h].live
  /\ \A g \in Handles : g < h => handles[g].live

\* AFF4ScopedPtr<T> h = resolver.AFF4FactoryOpen<T>(urn);
OpenOp(h, urn, T, loadOk) ==
  /\ ~aborted
  /\ IsFree(h)
  /\ Constructs(ObjectCache, store, urn, loadOk) => Len(objects) < MaxObjects
  /\ LET r == AFF4FactoryOpen(ObjectCache, objects, store, urn, T, loadOk)
     IN  /\ ObjectCache' = r.cache
         /\ objects' = r.objects
         /\ handles' = [handles EXCEPT ![h] = ScopedPtr(T, r.result)]
         /\ lastOp' = [Op("Open") EXCEPT
                         !.urn = urn, !.T = T, !.result = r.result,
                         !.obj = r.obj, !.path = r.path, !.key = r.key,
                         !.prepare = r.prepare, !.load = r.load,
                         !.loaded = r.loaded]
  /\ UNCHANGED <<store, aborted>>
  /\ UNCHANGED imagerVars

\* resolver.Set(urn, AFF4_TYPE, new URN(type));
SetOp(urn, type) ==
  /\ ~aborted
  /\ store' = StoreSet(store, urn, AFF4_TYPE, type)
  /\ lastOp' = Op("Set")
  /\ UNCHANGED <<ObjectCache, objects, handles, aborted>>
  /\ UNCHANGED imagerVars

\* resolver.Clear();
ClearOp ==
  /\ ~aborted
  /\ store' = EmptyMap
  /\ ObjectCache' = EmptyMap
  /\ objects' = ClearObjects(ObjectCache, objects)
  /\ lastOp' = Op("Clear")
  /\ UNCHANGED <<handles, aborted>>
  /\ UNCHANGED imagerVars

\* resolver.Flush();
FlushOp ==
  /\ ~aborted
  /\ lastOp' = [Op("Flush") EXCEPT !.flushed = FlushHooks(ObjectCache)]
  /\ UNCHANGED <<store, ObjectCache, objects, handles, aborted>>
  /\ UNCHANGED imagerVars

\* AFF4ScopedPtr<T> to(std::move(from));
MoveOp(from, to) ==
  /\ ~aborted
  /\ handles[from].live
  /\ IsFree(to)
  /\ handles' = [handles EXCEPT
                   ![to] = ScopedPtr(handles[from].T, handles[from].ptr),
                   ![from] = Released(handles[from])]
  /\ lastOp' = Op("Move")
  /\ UNCHANGED <<store, ObjectCache, objects, aborted>>
  /\ UNCHANGED imagerVars

\* h.release();
ReleaseOp(h) ==
  /\ ~aborted
  /\ handles[h].live
  /\ handles' = [handles EXCEPT ![h] = Released(handles[h])]
  /\ lastOp' = Op("Release")
  /\ UNCHANGED <<store, ObjectCache, objects, aborted>>
  /\ UNCHANGED imagerVars

\* h goes out of scope: ~AFF4ScopedPtr() does nothing. Handles are automatic
\* variables, which leave scope in the reverse order of their declaration.
DestroyOp(h) ==
  /\ ~aborted
  /\ handles[h].live
  /\ \A g \in Handles : g > h => ~handles[g].live
  /\ handles' = [handles EXCEPT ![h] = NoHandle]
  /\ lastOp' = Op("Destroy")
  /\ UNCHANGED <<store, ObjectCache, objects, aborted>>
  /\ UNCHANGED imagerVars

\* h->member (operator "arrow") or *h (operator "star").
DerefOp(h, operator, outcome) ==
  /\ ~aborted
  /\ handles[h].live
  /\ outcome \in DerefOutcomes(objects, handles[h].ptr, operator)
  /\ aborted' = (outcome = "abort")
  /\ lastOp' = [Op("Deref") EXCEPT
                  !.path = PointerState(objects, handles[h].ptr),
                  !.operator = operator, !.outcome = outcome]
  /\ UNCHANGED <<store, ObjectCache, objects, handles>>
  /\ UNCHANGED imagerVars

Next ==
  \/ \E h \in Handles, urn \in ClientURNs, T \in ClientCaps, loadOk \in BOOLEAN :
       OpenOp(h, urn, T, loadOk)
  \/ \E urn \in ClientURNs, type \in ClientTypes : SetOp(urn, type)
  \/ ClearOp
  \/ FlushOp
  \/ \E from \in Handles, to \in Handles : MoveOp(from, to)
  \/ \E h \in Handles : ReleaseOp(h)
  \/ \E h \in Handles : DestroyOp(h)
  \/ \E h \in Handles, operator \in {"arrow", "star"},
        outcome \in {"ok", "abort", "nullref", "garbage"} :
       DerefOp(h, operator, outcome)

Spec == Init /\ [][Next]_vars

---------------------------------------------------------------------------
(* Streams and volumes, as ImageStream uses them. *)

Min(a, b) == IF a < b THEN a ELSE b

\* AFF4Stream::Read(n) at position ptr of a stream holding data: the next n
\* bytes, fewer at the end of the stream, none once it is exhausted.
StreamRead(data, ptr, n) == SubSeq(data, ptr + 1, Min(ptr + n, Len(data)))

\* ZipFile::NewZipFile(resolver, backing_store_urn): declares a new volume
\* stored on the backing stream and opens it.
VolumeURN == URN("aff4", "volume")

NewZipFile(cache, objs, st, backing_urn, loadOk) ==
  LET st1 == StoreSet(st, VolumeURN, AFF4_TYPE, "aff4:zip_volume")
      st2 == StoreSet(st1, VolumeURN, AFF4_STORED, backing_urn)
      r == AFF4FactoryOpen(cache, objs, st2, VolumeURN, "ZipFile", loadOk)
  IN  [cache |-> r.cache, objects |-> r.objects, store |-> st2,
       result |-> r.result, obj |-> r.obj, path |-> r.path,
       urn |-> VolumeURN]

\* AFF4Image::NewAFF4Image(resolver, image_urn, volume_urn): declares a new
\* image stream stored in the volume and opens it.
NewAFF4Image(cache, objs, st, image_urn, volume_urn, loadOk) ==
  LET st1 == StoreSet(st, image_urn, AFF4_TYPE, "aff4:image")
      st2 == StoreSet(st1, image_urn, AFF4_STORED, volume_urn)
      r == AFF4FactoryOpen(cache, objs, st2, image_urn, "AFF4Image", loadOk)
  IN  [cache |-> r.cache, objects |-> r.objects, store |-> st2,
       result |-> r.result, obj |-> r.obj, path |-> r.path,
       urn |-> image_urn]

---------------------------------------------------------------------------
(* SpecImager: one run of aff4imager. *)

Bytes == {"a", "b"}

SeqsUpTo(S, n) == UNION {[1..k -> S] : k \in 0..n}

\* URN(string): a bare path names a file.
ParseURN(value) ==
  CASE value = "in.dd" -> URN("file", "in.dd")
    [] value = "out.aff4" -> URN("file", "out.aff4")
    [] value = "bogus:in" -> URN("bogus", "in")
    [] value = "bogus:out" -> URN("bogus", "out")
    [] OTHER -> URN("file", value)

\* The values of --in and --out; "" when the option is not given.
InputValues == {"in.dd", "bogus:in"}
OutputValues == {"out.aff4", "bogus:out"}

\* ValueArg::isSet().
IsSet(value) == value # ""

\* A command line: bad when cmd.parse throws an ArgException.
CommandLines ==
  [mode : {"cli"}, bad : BOOLEAN, truncate : BOOLEAN,
   input : InputValues \cup {""}, output : OutputValues \cup {""},
   buffer_size : {DEFAULT_BUFFER_SIZE}]

\* ImageStream called by a program of its own, with a buffer size.
DirectCalls ==
  [mode : {"direct"}, bad : {FALSE}, truncate : BOOLEAN,
   input : InputValues, output : OutputValues,
   buffer_size : 0..MaxBuf]

\* A call made on the resolver or on a stream.
Ev(ev) ==
  [ev |-> ev, urn |-> NoURN, attr |-> None, value |-> None, result |-> NULL,
   obj |-> NULL, path |-> None, n |-> 0, data |-> <<>>, objs |-> {}]

OpenEv(ev, urn, r) ==
  [Ev(ev) EXCEPT !.urn = urn, !.result = r.result, !.obj = r.obj,
                 !.path = r.path]

SetEv(urn, attr, value) ==
  [Ev("Set") EXCEPT !.urn = urn, !.attr = attr, !.value = value]

NoLocals ==
  [input_urn |-> NoURN, output_urn |-> NoURN, buffer_size |-> 0,
   input |-> NoHandle, output |-> NoHandle, zip |-> NoHandle,
   image |-> NoHandle]

NoRes == [status |-> None, exit |-> None]

\* --truncate given: the other write mode.
WriteMode_Swapped(truncate) == IF truncate THEN "append" ELSE "truncate"

\* if(truncate.isSet()) "truncate" else "append".
WriteMode(truncate) == IF truncate THEN "truncate" ELSE "append"

\* No check of --out at all.
MissingOutput_Unchecked(a) == FALSE

\* if(input.isSet()) { if(!output.isSet()) ...
MissingOutput(a) == IsSet(a.input) /\ ~IsSet(a.output)

InitImager ==
  /\ store = EmptyMap
  /\ ObjectCache = EmptyMap
  /\ objects = <<>>
  /\ handles = [h \in Handles |-> NoHandle]
  /\ aborted = FALSE
  /\ lastOp = Op("Init")
  /\ argv \in CommandLines \cup DirectCalls
  /\ content \in SeqsUpTo(Bytes, MaxLen)
  /\ readptr = 0
  /\ trace = <<>>
  /\ res = NoRes
  /\ pc = IF argv.mode = "cli" THEN "main" ELSE "call"
  /\ locals = NoLocals

\* parseOptions up to its return or its call of ImageStream.
ParseOptions ==
  /\ pc = "main"
  /\ UNCHANGED <<ObjectCache, objects, handles, aborted, lastOp, argv,
                 content, readptr>>
  /\ IF argv.bad
     THEN \* catch (ArgException& e): print, then return STATUS_OK.
          /\ trace' = Append(trace, Ev("ERROR"))
          /\ res' = [res EXCEPT !.status = "STATUS_OK"]
          /\ pc' = "return"
          /\ UNCHANGED <<store, locals>>
     ELSE IF MissingOutput(argv)
     THEN /\ trace' = Append(trace, Ev("ERROR"))
          /\ res' = [res EXCEPT !.status = "INVALID_INPUT"]
          /\ pc' = "return"
          /\ UNCHANGED <<store, locals>>
     ELSE IF IsSet(argv.input)
     THEN LET output_urn == ParseURN(argv.output)
              input_urn == ParseURN(argv.input)
              mode == WriteMode(argv.truncate)
          IN  /\ store' = StoreSet(store, output_urn,
                                   AFF4_STREAM_WRITE_MODE, mode)
              /\ trace' = Append(trace,
                                 SetEv(output_urn, AFF4_STREAM_WRITE_MODE, mode))
              /\ locals' = [NoLocals EXCEPT
                              !.input_urn = input_urn,
                              !.output_urn = output_urn,
                              !.buffer_size = DEFAULT_BUFFER_SIZE]
              /\ pc' = "ImageStream"
              /\ UNCHANGED res
     ELSE \* No --in: list the volumes named, return STATUS_OK.
          /\ res' = [res EXCEPT !.status = "STATUS_OK"]
          /\ pc' = "return"
          /\ UNCHANGED <<store, locals, trace>>

\* A program of its own sets the write mode and calls ImageStream.
DirectCall ==
  /\ pc = "call"
  /\ LET output_urn == ParseURN(argv.output)
         mode == WriteMode(argv.truncate)
     IN  /\ store' = StoreSet(store, output_urn, AFF4_STREAM_WRITE_MODE, mode)
         /\ trace' = Append(trace,
                            SetEv(output_urn, AFF4_STREAM_WRITE_MODE, mode))
         /\ locals' = [NoLocals EXCEPT
                         !.input_urn = ParseURN(argv.input),
                         !.output_urn = output_urn,
                         !.buffer_size = argv.buffer_size]
  /\ pc' = "ImageStream"
  /\ UNCHANGED <<ObjectCache, objects, handles, aborted, lastOp, argv,
                 content, readptr, res>>

\* operator!: whether the handle is empty.
Not(h) == h.ptr = NULL

\* Only the input is checked.
AfterOpens_InputOnly(input, output) ==
  IF Not(input) THEN "IO_ERROR" ELSE None

\* if(!input) return IO_ERROR; if(!output) return IO_ERROR;
AfterOpens(input, output) ==
  IF Not(input) THEN "IO_ERROR"
  ELSE IF Not(output) THEN "IO_ERROR"
  ELSE None

\* What one step of ImageStream leaves behind.
ImagerStep(cache, objs, st, l, t, status, nextpc) ==
  /\ ObjectCache' = cache
  /\ objects' = objs
  /\ store' = st
  /\ locals' = l
  /\ trace' = t
  /\ res' = [res EXCEPT !.status = status]
  /\ pc' = nextpc
  /\ aborted' = (nextpc = "aborted")

\* ImageStream from its two opens to the creation of the image stream.
ImageStreamOpen ==
  /\ pc = "ImageStream"
  /\ UNCHANGED <<handles, lastOp, argv, content, readptr>>
  /\ \E loadIn \in BOOLEAN, loadOut \in BOOLEAN,
        loadZip \in BOOLEAN, loadImage \in BOOLEAN :
       LET rin == AFF4FactoryOpen(ObjectCache, objects, store,
                                  locals.input_urn, "AFF4Stream", loadIn)
           rout == AFF4FactoryOpen(rin.cache, rin.objects, store,
                                   locals.output_urn, "AFF4Stream", loadOut)
           input == ScopedPtr("AFF4Stream", rin.result)
           output == ScopedPtr("AFF4Stream", rout.result)
           l2 == [locals EXCEPT !.input = input, !.output = output]
           t2 == trace \o <<OpenEv("Open", locals.input_urn, rin),
                            OpenEv("Open", locals.output_urn, rout)>>
       IN  IF AfterOpens(input, output) # None
           THEN ImagerStep(rout.cache, rout.objects, store, l2, t2,
                           AfterOpens(input, output), "return")
           ELSE IF "ok" \notin ArrowOutcomes(rout.objects, output.ptr)
           THEN \* output->urn on an empty handle: the CHECK aborts.
                ImagerStep(rout.cache, rout.objects, store, l2, t2,
                           None, "aborted")
           ELSE
             LET rz == NewZipFile(rout.cache, rout.objects, store,
                                  rout.objects[output.ptr].urn, loadZip)
                 zip == ScopedPtr("ZipFile", rz.result)
                 l3 == [l2 EXCEPT !.zip = zip]
                 t3 == Append(t2, OpenEv("NewZipFile", rz.urn, rz))
             IN  IF Not(zip)
                 THEN ImagerStep(rz.cache, rz.objects, rz.store, l3, t3,
                                 "IO_ERROR", "return")
                 ELSE
                   LET zip_urn == rz.objects[zip.ptr].urn
                       image_urn ==
                         UrnAppend(zip_urn, Parse(locals.input_urn).path)
                       ri == NewAFF4Image(rz.cache, rz.objects, rz.store,
                                          image_urn, zip_urn, loadImage)
                       image == ScopedPtr("AFF4Image", ri.result)
                       l4 == [l3 EXCEPT !.image = image]
                       t4 == Append(t3, OpenEv("NewAFF4Image", ri.urn, ri))
                   IN  IF Not(image)
                       THEN ImagerStep(ri.cache, ri.objects, ri.store, l4, t4,
                                       "IO_ERROR", "return")
                       ELSE ImagerStep(ri.cache, ri.objects, ri.store, l4, t4,
                                       None, "loop")

\* A loop that ends at the first short read.
EndOfInput_ShortRead(data, n) == Len(data) < n

\* if(data.size() == 0) break;
EndOfInput(data, n) == Len(data) = 0

\* One iteration of ImageStream's loop: a Read of the input and, unless it
\* is empty, a Write of what was read to the image.
ImageStreamLoop ==
  /\ pc = "loop"
  /\ LET n == locals.buffer_size
         data == StreamRead(content, readptr, n)
         read == [Ev("Read") EXCEPT
                    !.obj = locals.input.ptr, !.n = n, !.data = data]
         write == [Ev("Write") EXCEPT
                     !.obj = locals.image.ptr, !.data = data]
     IN  /\ readptr' = readptr + Len(data)
         /\ IF EndOfInput(data, n)
            THEN /\ trace' = Append(trace, read)
                 /\ res' = [res EXCEPT !.status = "STATUS_OK"]
                 /\ pc' = "return"
            ELSE /\ trace' = trace \o <<read, write>>
                 /\ pc' = "loop"
                 /\ UNCHANGED res
  /\ UNCHANGED <<store, ObjectCache, objects, handles, aborted, lastOp,
                 argv, locals, content>>

\* A resolver that is torn down only when the run succeeded.
TornDown_OnlyOnSuccess(status) == status = "STATUS_OK"

\* MemoryDataStore resolver; is a local of parseOptions: every return
\* destroys it.
TornDown(status) == TRUE

\* The return of parseOptions: ~MemoryDataStore() flushes the cached objects
\* and destroys the cache and the store.
Return ==
  /\ pc = "return"
  /\ IF TornDown(res.status)
     THEN /\ trace' = Append(trace,
                 [Ev("Flush") EXCEPT !.objs = FlushHooks(ObjectCache)])
          /\ objects' = ClearObjects(ObjectCache, objects)
          /\ ObjectCache' = EmptyMap
          /\ store' = EmptyMap
     ELSE UNCHANGED <<trace, objects, ObjectCache, store>>
  /\ pc' = IF argv.mode = "cli" THEN "returned" ELSE "done"
  /\ UNCHANGED <<handles, aborted, lastOp, argv, locals, content, readptr,
                 res>>

\* if (res == STATUS_OK) return 0; return res;
ExitStatus(status) == IF status = "STATUS_OK" THEN "0" ELSE status

\* main after parseOptions has returned.
MainExit ==
  /\ pc = "returned"
  /\ res' = [res EXCEPT !.exit = ExitStatus(res.status)]
  /\ pc' = "exited"
  /\ UNCHANGED <<store, ObjectCache, objects, handles, aborted, lastOp,
                 argv, locals, content, readptr, trace>>

NextImager ==
  \/ ParseOptions
  \/ DirectCall
  \/ ImageStreamOpen
  \/ ImageStreamLoop
  \/ Return
  \/ MainExit

SpecImager == InitImager /\ [][NextImager]_vars

\* The imager is one thread that runs each statement it reaches: a step that
\* can be taken is taken.
SpecImagerFair == SpecImager /\ WF_vars(NextImager)

---------------------------------------------------------------------------
(* SpecStore: a client of the triple store alone. *)

StoreAttributes == {AFF4_STORED, AFF4_STREAM_WRITE_MODE}

StoreValues == {"truncate", "append"}

\* The record of a store operation: the call, the status it returned, the
\* value a Get produced, the value the pair had before a Set (old), and
\* whether a DeleteSubject found the subject.
StoreOp(op, urn, attribute, value, status, old, existed) ==
  [op |-> op, urn |-> urn, attribute |-> attribute, value |-> value,
   status |-> status, old |-> old, existed |-> existed]

InitStore ==
  /\ store = EmptyMap
  /\ ObjectCache = EmptyMap
  /\ objects = <<>>
  /\ handles = [h \in Handles |-> NoHandle]
  /\ aborted = FALSE
  /\ lastOp = StoreOp("Init", NoURN, None, None, None, None, FALSE)
  /\ ImagerIdle

\* resolver.Set(urn, attribute, new XSDString(value));
StoreSetOp(urn, attribute, value) ==
  /\ store' = StoreSet(store, urn, attribute, value)
  /\ lastOp' = StoreOp("Set", urn, attribute, value, "STATUS_OK",
                       StoreGet(store, urn, attribute), FALSE)
  /\ UNCHANGED <<ObjectCache, objects, handles, aborted>>
  /\ UNCHANGED imagerVars

\* resolver.Get(urn, attribute, value);
StoreGetOp(urn, attribute) ==
  /\ lastOp' = StoreOp("Get", urn, attribute, StoreGet(store, urn, attribute),
                       IF StoreGet(store, urn, attribute) = None
                       THEN "NOT_FOUND" ELSE "STATUS_OK",
                       None, FALSE)
  /\ UNCHANGED <<store, ObjectCache, objects, handles, aborted>>
  /\ UNCHANGED imagerVars

\* resolver.DeleteSubject(urn);
StoreDeleteOp(urn) ==
  /\ store' = DeleteSubject(store, urn)
  /\ lastOp' = StoreOp("DeleteSubject", urn, None, None, "STATUS_OK",
                       None, urn \in DOMAIN store)
  /\ UNCHANGED <<ObjectCache, objects, handles, aborted>>
  /\ UNCHANGED imagerVars

NextStore ==
  \/ \E urn \in ClientURNs, attribute \in StoreAttributes,
        value \in StoreValues :
       StoreSetOp(urn, attribute, value)
  \/ \E urn \in ClientURNs, attribute \in StoreAttributes :
       StoreGetOp(urn, attribute)
  \/ \E urn \in ClientURNs : StoreDeleteOp(urn)

SpecStore == InitStore /\ [][NextStore]_vars

---------------------------------------------------------------------------
(* Claims about the resolver, checked under Spec. *)

\* C1 (cache identity): an Open that returns a non-empty handle leaves its
\* object cached under the identifier; while an object is cached under u,
\* every step other than Clear leaves that same object cached under u, and
\* an Open of u for a capability the object supports returns that object.
C1_CacheIdentity ==
  [][ /\ (lastOp'.op = "Open" /\ lastOp'.result # NULL) =>
           /\ lastOp'.urn \in DOMAIN ObjectCache'
           /\ ObjectCache'[lastOp'.urn] = lastOp'.result
      /\ \A u \in DOMAIN ObjectCache :
           lastOp'.op # "Clear" =>
             /\ u \in DOMAIN ObjectCache'
             /\ ObjectCache'[u] = ObjectCache[u]
             /\ ( /\ lastOp'.op = "Open"
                  /\ lastOp'.urn = u
                  /\ lastOp'.T \in ClassCaps(objects[ObjectCache[u]].class) )
                => lastOp'.result = ObjectCache[u] ]_vars

\* Two handles from two Opens of one identifier refer to one object.
C1_Witness ==
  /\ lastOp.op = "Open"
  /\ lastOp.path = "hit"
  /\ lastOp.result # NULL
  /\ \E h1 \in Handles, h2 \in Handles :
       /\ h1 # h2
       /\ handles[h1].live /\ handles[h2].live
       /\ handles[h1].ptr = lastOp.result
       /\ handles[h2].ptr = lastOp.result

\* C2 (narrowing failure): an Open<T> returns a non-empty handle only to the
\* object it found or constructed and only if that object's class supports
\* T; when the cached or the constructed object does not support T the
\* handle is empty. Every non-empty handle refers to an object supporting
\* the handle's capability.
C2_NarrowingFailure ==
  /\ lastOp.op = "Open" =>
       /\ lastOp.result # NULL =>
            /\ lastOp.result = lastOp.obj
            /\ lastOp.T \in ClassCaps(objects[lastOp.result].class)
       /\ ( /\ lastOp.path \in {"hit", "miss"}
            /\ lastOp.T \notin ClassCaps(objects[lastOp.obj].class) )
          => lastOp.result = NULL
  /\ \A h \in Handles :
       (handles[h].live /\ handles[h].ptr # NULL) =>
         handles[h].T \in ClassCaps(objects[handles[h].ptr].class)

\* An Open<AFF4Volume> of an identifier whose cached object is a stream.
C2_Witness ==
  /\ lastOp.op = "Open"
  /\ lastOp.path = "hit"
  /\ lastOp.obj # NULL
  /\ lastOp.T \notin ClassCaps(objects[lastOp.obj].class)
  /\ lastOp.result = NULL

\* C3 (no object is destroyed while checked out): every non-empty handle
\* refers to a live object held in the Object Cache.
C3_NoDestroyWhileCheckedOut ==
  \A h \in Handles :
    (handles[h].live /\ handles[h].ptr # NULL) =>
      /\ handles[h].ptr \in CachedObjects(ObjectCache)
      /\ objects[handles[h].ptr].alive

\* C4 (an empty handle fails fast): every dereference of an empty handle,
\* by operator-> or by operator*, aborts.
C4_EmptyDerefFailsFast ==
  (lastOp.op = "Deref" /\ lastOp.path = "empty") => lastOp.outcome = "abort"

\* C12 (unknown type): an Open of an identifier that is not cached, has no
\* declared type and whose scheme has no constructor returns an empty handle,
\* invokes no self-load hook, and leaves the Object Cache and the objects as
\* they were.
C12_UnknownType ==
  [][ ( /\ lastOp'.op = "Open"
        /\ lastOp'.urn \notin DOMAIN ObjectCache
        /\ StoreGet(store, lastOp'.urn, AFF4_TYPE) = None
        /\ CreateInstance(Parse(lastOp'.urn).scheme) = None )
      => /\ lastOp'.result = NULL
         /\ lastOp'.load = 0
         /\ lastOp'.loaded = None
         /\ ObjectCache' = ObjectCache
         /\ objects' = objects ]_vars

\* An Open of aff4:v, whose scheme has no constructor, on a resolver that
\* has another object cached.
C12_Witness ==
  /\ lastOp.op = "Open"
  /\ lastOp.path = "unknown"
  /\ lastOp.key = Parse(lastOp.urn).scheme
  /\ lastOp.result = NULL
  /\ ObjectCache # EmptyMap
  /\ lastOp.urn \notin DOMAIN ObjectCache

\* The non-empty handles that refer to an object.
Holders(hs, o) == {h \in Handles : hs[h].live /\ hs[h].ptr = o}

\* C13 (handle operations never change cache ownership): a move, a release
\* and a scope exit of a handle leave the Object Cache, the objects and the
\* triple store as they were; after a move the source is empty and the
\* destination refers to what the source referred to; no object gains a
\* non-empty handle.
C13_HandleOps ==
  [][ lastOp'.op \in {"Move", "Release", "Destroy"} =>
        /\ ObjectCache' = ObjectCache
        /\ objects' = objects
        /\ store' = store
        /\ lastOp'.op = "Move" =>
             \E from \in Handles, to \in Handles :
               /\ from # to
               /\ handles[from].live /\ ~handles[to].live
               /\ handles'[from].live /\ handles'[from].ptr = NULL
               /\ handles'[to].live /\ handles'[to].ptr = handles[from].ptr
               /\ \A g \in Handles \ {from, to} : handles'[g] = handles[g]
        /\ \A o \in DOMAIN objects :
             Cardinality(Holders(handles', o))
               <= Cardinality(Holders(handles, o)) ]_vars

\* A move of a non-empty handle to a cached object: the source is empty, the
\* destination alone refers to the object.
C13_Witness ==
  /\ lastOp.op = "Move"
  /\ \E from \in Handles, to \in Handles :
       /\ handles[from].live /\ handles[from].ptr = NULL
       /\ handles[to].live /\ handles[to].ptr \in CachedObjects(ObjectCache)
       /\ Holders(handles, handles[to].ptr) = {to}

\* C15 (Open adds an instance to the cache only on success): every Open
\* that returns an empty handle leaves the Object Cache exactly as it was.
C15_EmptyOpenLeavesCache ==
  [][ (lastOp'.op = "Open" /\ lastOp'.result = NULL) =>
        ObjectCache' = ObjectCache ]_vars

\* C16 (a self-load failure aborts the open): an Open whose self-load hook
\* fails returns an empty handle and inserts nothing, so the identifier is
\* not cached after it; the next Open of that identifier invokes the
\* self-load hook again, on an instance that did not exist before.
C16_LoadFailure ==
  [][ /\ (lastOp'.op = "Open" /\ lastOp'.loaded = "failed") =>
           /\ lastOp'.result = NULL
           /\ lastOp'.obj = NULL
           /\ ObjectCache' = ObjectCache
           /\ objects' = objects
           /\ lastOp'.urn \notin DOMAIN ObjectCache'
      /\ ( /\ lastOp.op = "Open" /\ lastOp.loaded = "failed"
           /\ lastOp'.op = "Open" /\ lastOp'.urn = lastOp.urn )
         => /\ lastOp'.load = 1
            /\ lastOp'.prepare = 0
            /\ lastOp'.obj # NULL => lastOp'.obj \notin DOMAIN objects ]_vars

\* An Open whose self-load failed, on a resolver with another object cached.
C16_Witness ==
  /\ lastOp.op = "Open"
  /\ lastOp.loaded = "failed"
  /\ lastOp.load = 1
  /\ lastOp.result = NULL
  /\ ObjectCache # EmptyMap
  /\ lastOp.urn \notin DOMAIN ObjectCache

\* C17 (key selection on a miss): an Open of an identifier that is not
\* cached consults the registry with the declared type when the triple store
\* holds one for the identifier, and with the scheme only when it holds
\* none; when the key consulted has no constructor the Open reports the
\* object unknown, and otherwise what it constructs is of the key's class.
C17_KeySelection ==
  [][ (lastOp'.op = "Open" /\ lastOp'.urn \notin DOMAIN ObjectCache) =>
        LET declared == StoreGet(store, lastOp'.urn, AFF4_TYPE)
        IN  /\ declared # None => lastOp'.key = declared
            /\ declared = None => lastOp'.key = Parse(lastOp'.urn).scheme
            /\ CreateInstance(lastOp'.key) = None =>
                 /\ lastOp'.path = "unknown"
                 /\ lastOp'.result = NULL
            /\ lastOp'.obj # NULL =>
                 objects'[lastOp'.obj].class = CreateInstance(lastOp'.key)
    ]_vars

\* An Open of file:a with a declared type that has no constructor: unknown,
\* although the scheme has one.
C17_Witness ==
  /\ lastOp.op = "Open"
  /\ lastOp.path = "unknown"
  /\ lastOp.key = StoreGet(store, lastOp.urn, AFF4_TYPE)
  /\ CreateInstance(Parse(lastOp.urn).scheme) # None

\* C18 (hook ordering): an Open of a cached identifier invokes the prepare
\* hook once, on the cached object, consults no registry key and invokes no
\* self-load; an Open of an identifier that is not cached never invokes
\* prepare, invokes self-load once when a constructor is found, on a new
\* instance that carries the identifier and was not cached; a self-load
\* succeeds only for an identifier that was not cached and is cached after.
C18_HookOrdering ==
  [][ lastOp'.op = "Open" =>
        /\ lastOp'.urn \in DOMAIN ObjectCache =>
             /\ lastOp'.prepare = 1
             /\ lastOp'.obj = ObjectCache[lastOp'.urn]
             /\ lastOp'.load = 0
             /\ lastOp'.key = None
        /\ lastOp'.urn \notin DOMAIN ObjectCache =>
             /\ lastOp'.prepare = 0
             /\ lastOp'.load = IF CreateInstance(lastOp'.key) = None
                               THEN 0 ELSE 1
             /\ lastOp'.obj # NULL =>
                  /\ lastOp'.obj \notin DOMAIN objects
                  /\ objects'[lastOp'.obj].urn = lastOp'.urn
                  /\ ObjectCache'[lastOp'.urn] = lastOp'.obj
        /\ lastOp'.loaded = "ok" =>
             /\ lastOp'.urn \notin DOMAIN ObjectCache
             /\ lastOp'.urn \in DOMAIN ObjectCache' ]_vars

\* An Open that hit the object an earlier Open constructed and loaded.
C18_Witness ==
  /\ lastOp.op = "Open"
  /\ lastOp.path = "hit"
  /\ lastOp.prepare = 1
  /\ lastOp.load = 0
  /\ objects[lastOp.obj].urn = lastOp.urn
  /\ objects[lastOp.obj].alive

---------------------------------------------------------------------------
(* Claims about the imager, checked under SpecImager. *)

\* The positions of the calls of one kind in the trace.
Calls(ev) == {i \in DOMAIN trace : trace[i].ev = ev}

IsIO(e) ==
  e.ev \in {"Set", "Open", "NewZipFile", "NewAFF4Image", "Read", "Write"}

\* The arguments of the Writes (or the results of the Reads), in call order.
RECURSIVE Chunks(_, _)
Chunks(t, ev) ==
  IF t = <<>> THEN <<>>
  ELSE IF Head(t).ev = ev THEN <<Head(t).data>> \o Chunks(Tail(t), ev)
  ELSE Chunks(Tail(t), ev)

RECURSIVE Flatten(_)
Flatten(chunks) ==
  IF chunks = <<>> THEN <<>> ELSE Head(chunks) \o Flatten(Tail(chunks))

NonEmpty(chunk) == chunk # <<>>

\* parseOptions (or the direct caller) has returned.
Finished == pc \in {"returned", "done", "exited"}

\* C5 (imaging is byte-exact and order-preserving): with a buffer size of at
\* least 1, the chunks written to the image are exactly the non-empty chunks
\* read from the input, in read order, each Write following its Read; what
\* has been written is always the input up to the read position, and once
\* ImageStream has returned after all opens succeeded it is the whole input
\* and the status is STATUS_OK, whatever the buffer size.
C5_ByteExact ==
  locals.buffer_size >= 1 =>
    /\ Chunks(trace, "Write") = SelectSeq(Chunks(trace, "Read"), NonEmpty)
    /\ \A i \in Calls("Write") :
         /\ trace[i].obj = locals.image.ptr
         /\ i > 1
         /\ trace[i - 1].ev = "Read"
         /\ trace[i - 1].data = trace[i].data
    /\ Flatten(Chunks(trace, "Write")) = SubSeq(content, 1, readptr)
    /\ ((pc = "return" \/ Finished) /\ ~Not(locals.image)) =>
         /\ Flatten(Chunks(trace, "Write")) = content
         /\ res.status = "STATUS_OK"

\* Four bytes imaged with a buffer of three: a full chunk and a short one.
C5_Witness ==
  /\ pc = "done"
  /\ locals.buffer_size = 3
  /\ Len(content) = 4
  /\ content[1] # content[2]
  /\ Len(Chunks(trace, "Write")) = 2
  /\ Flatten(Chunks(trace, "Write")) = content

\* The objects the trace says were put into the Object Cache.
CachedByTrace ==
  {trace[i].obj : i \in {j \in DOMAIN trace : trace[j].path = "miss"}}

\* C6 (flush at teardown): no path aborts; until parseOptions returns the
\* Object Cache holds every object an open has put there; once it has
\* returned, on every path, the last call made is the teardown's flush, it
\* invoked the flush hook of every object that was in the Object Cache, and
\* every Write precedes it and was made to one of those objects.
C6_FlushAtTeardown ==
  /\ ~aborted
  /\ ~Finished => CachedObjects(ObjectCache) = CachedByTrace
  /\ Finished =>
       /\ trace # <<>>
       /\ trace[Len(trace)].ev = "Flush"
       /\ trace[Len(trace)].objs = CachedByTrace
       /\ \A i \in Calls("Write") :
            i < Len(trace) /\ trace[i].obj \in trace[Len(trace)].objs

\* A successful run: four cached objects flushed after the last Write.
C6_Witness ==
  /\ pc = "exited"
  /\ res.status = "STATUS_OK"
  /\ Calls("Write") # {}
  /\ Cardinality(trace[Len(trace)].objs) = 4

\* One of ImageStream's two opens returned an empty handle.
OpenFailed == \E i \in Calls("Open") : trace[i].result = NULL

\* C7 (a failed open aborts the operation): when the open of the input or
\* of the output fails, ImageStream returns IO_ERROR, and no volume and no
\* image stream is created and no Read and no Write is issued.
C7_OpenFailureAborts ==
  OpenFailed =>
    /\ ~aborted
    /\ pc \in {"return", "returned", "done", "exited"}
    /\ res.status = "IO_ERROR"
    /\ \A i \in DOMAIN trace :
         trace[i].ev \notin {"NewZipFile", "NewAFF4Image", "Read", "Write"}
    /\ \A o \in DOMAIN objects :
         objects[o].class \notin {"ZipFile", "AFF4Image"}

\* The input opened, the output did not.
C7_Witness ==
  /\ pc = "exited"
  /\ \E i \in Calls("Open") :
       trace[i].urn = locals.input_urn /\ trace[i].result # NULL
  /\ \E i \in Calls("Open") :
       trace[i].urn = locals.output_urn /\ trace[i].result = NULL

\* C8 (invalid command line): with --in set and --out not set no Set, no
\* Open and no Read or Write is ever performed and the resolver stays
\* empty; when cmd.parse accepted the command line, parseOptions returns
\* INVALID_INPUT, which is the exit status, and ImageStream is not called.
C8_InvalidInput ==
  (argv.mode = "cli" /\ IsSet(argv.input) /\ ~IsSet(argv.output)) =>
    /\ \A i \in DOMAIN trace : ~IsIO(trace[i])
    /\ store = EmptyMap /\ ObjectCache = EmptyMap /\ objects = <<>>
    /\ ~argv.bad =>
         /\ pc \in {"main", "return", "returned", "exited"}
         /\ pc # "main" => res.status = "INVALID_INPUT"
         /\ pc = "exited" => res.exit = "INVALID_INPUT"

C8_Witness ==
  /\ pc = "exited"
  /\ ~argv.bad
  /\ IsSet(argv.input)
  /\ ~IsSet(argv.output)
  /\ res.exit = "INVALID_INPUT"

\* C9 (write mode selection): with --in and --out both set, parseOptions
\* sets the write mode of the output identifier exactly once, to "truncate"
\* when --truncate is given and to "append" otherwise, before ImageStream
\* opens the output identifier; the resolver holds that value while
\* ImageStream runs.
C9_WriteModeSelection ==
  (argv.mode = "cli" /\ ~argv.bad /\ IsSet(argv.input) /\ IsSet(argv.output)) =>
    LET out == ParseURN(argv.output)
        sets == {i \in Calls("Set") :
                   trace[i].urn = out /\ trace[i].attr = AFF4_STREAM_WRITE_MODE}
        opens == {i \in DOMAIN trace :
                    trace[i].ev \in {"Open", "NewZipFile", "NewAFF4Image"}
                    /\ trace[i].urn = out}
        mode == IF argv.truncate THEN "truncate" ELSE "append"
    IN  /\ pc = "main" => sets = {} /\ opens = {}
        /\ pc # "main" =>
             /\ Cardinality(sets) = 1
             /\ \A i \in sets :
                  /\ trace[i].value = mode
                  /\ \A j \in opens : i < j
        /\ pc \in {"ImageStream", "loop", "return"} =>
             StoreGet(store, out, AFF4_STREAM_WRITE_MODE) = mode
        /\ pc \notin {"main", "ImageStream"} => opens # {}

\* --truncate given, the output opened after the Set, imaging under way.
C9_Witness ==
  /\ pc = "loop"
  /\ argv.mode = "cli"
  /\ argv.truncate
  /\ \E i \in Calls("Set"), j \in Calls("Open") :
       /\ i < j
       /\ trace[i].value = "truncate"
       /\ trace[j].urn = ParseURN(argv.output)

\* A failure occurred in the run: a status other than STATUS_OK, or an
\* ERROR diagnostic printed.
RunFailed == res.status # "STATUS_OK" \/ Calls("ERROR") # {}

\* C10 (exit status 0 signals success): the process exits with status 0
\* exactly when no failure occurred, and with the failure's kind otherwise.
C10_ExitStatus ==
  pc = "exited" =>
    /\ (res.exit = "0") <=> ~RunFailed
    /\ RunFailed => res.exit \in {"INVALID_INPUT", "IO_ERROR"}

\* ceil(L / n), for n >= 1.
Ceil(L, n) == (L + n - 1) \div n

\* The Reads and Writes of the loop so far, against the input's length L and
\* the buffer size n: at most ceil(L/n) Writes and ceil(L/n)+1 Reads, no
\* Write of an empty chunk; once the loop has ended exactly that many, and
\* the last Read, and only the last, is the zero-length one.
LoopCounts ==
  LET n == locals.buffer_size
      L == Len(content)
      reads == Calls("Read")
      writes == Calls("Write")
  IN  (n >= 1 /\ ~Not(locals.image)) =>
        /\ Cardinality(writes) <= Ceil(L, n)
        /\ Cardinality(reads) <= Ceil(L, n) + 1
        /\ \A i \in writes : trace[i].data # <<>>
        /\ pc # "loop" =>
             /\ Cardinality(writes) = Ceil(L, n)
             /\ Cardinality(reads) = Ceil(L, n) + 1
             /\ \A i \in reads :
                  (trace[i].data = <<>>) <=> (\A j \in reads : j <= i)

\* C19 (imaging terminates): with a buffer size n of at least 1 and an input
\* of length L, the loop of ImageStream ends, after exactly ceil(L/n) Writes
\* and ceil(L/n)+1 Reads, the last Read being the zero-length one; no Write
\* has an empty chunk.
C19_Terminates ==
  /\ []LoopCounts
  /\ (pc = "loop" /\ locals.buffer_size >= 1) ~> (pc = "return")

\* Four bytes imaged with a buffer of three: three Reads, the last of them
\* empty, and two Writes.
C19_Witness ==
  /\ pc = "return"
  /\ locals.buffer_size = 3
  /\ Len(content) = 4
  /\ Cardinality(Calls("Read")) = 3
  /\ Cardinality(Calls("Write")) = 2
  /\ trace[Len(trace)].ev = "Read"
  /\ trace[Len(trace)].data = <<>>

\* C20 (a failed open of the input leaves the output alone): when the open
\* of the input returned an empty handle, the output identifier is never
\* opened, and no object is constructed or put into the Object Cache.
C20_InputFailureLeavesOutput ==
  (\E i \in Calls("Open") :
     trace[i].urn = locals.input_urn /\ trace[i].result = NULL) =>
    /\ \A i \in Calls("Open") : trace[i].urn # locals.output_urn
    /\ CachedByTrace = {}
    /\ objects = <<>>

---------------------------------------------------------------------------
(* Claims about the triple store, checked under SpecStore. *)

\* C11 (Set neither deduplicates nor replaces): after a Set of a value on a
\* pair (subject, attribute) that carried another value, the pair carries
\* both values.
C11_SetKeepsBoth ==
  (lastOp.op = "Set" /\ lastOp.old \notin {None, lastOp.value}) =>
    {lastOp.old, lastOp.value} \subseteq
      Carried(store, lastOp.urn, lastOp.attribute)

\* C14 (DeleteSubject is idempotent): a DeleteSubject of s reports success,
\* leaves s without attributes and every other subject's attributes as they
\* were; on a subject that has no attributes (never set, or deleted before)
\* it changes nothing.
C14_DeleteIdempotent ==
  [][ lastOp'.op = "DeleteSubject" =>
        /\ lastOp'.status = "STATUS_OK"
        /\ \A a \in StoreAttributes :
             Carried(store', lastOp'.urn, a) = {}
        /\ \A u \in ClientURNs, a \in StoreAttributes :
             u # lastOp'.urn => Carried(store', u, a) = Carried(store, u, a)
        /\ (\A a \in StoreAttributes : Carried(store, lastOp'.urn, a) = {})
             => store' = store ]_vars

\* A DeleteSubject of a subject that had none, next to a subject that has.
C14_Witness ==
  /\ lastOp.op = "DeleteSubject"
  /\ ~lastOp.existed
  /\ \E u \in ClientURNs, a \in StoreAttributes : Carried(store, u, a) # {}

===========================================================================
